---- MODULE Spec2Model ----
(***************************************************************************)
(* Streaming tool-call extraction of vllm/entrypoints/openai/tool_parsers: *)
(* Hermes2ProToolParser and Llama31ToolParser.                             *)
(*                                                                         *)
(* Text is a sequence of one-character strings; the two Hermes markers are *)
(* single atoms, as each is one special token of the vocabulary.  A stream *)
(* is a sequence of token ids fed to extract_tool_calls_streaming in       *)
(* deltas of one or more tokens.                                           *)
(***************************************************************************)
EXTENDS Integers, Sequences, FiniteSets, TLC

\* ------------------------------------------------------------- bounds
\* Longest stream, in tokens.
MaxTokens == 10
\* Tokens a stream may deliver beyond one per step (a delta of k tokens
\* uses k - 1 of them).
MaxExtra == 4
\* Plain-text tokens in a stream.
MaxText == 1
\* Pieces (a text token, a separator, a call span) of a complete output
\* handed to one-shot extraction.
MaxPieces == 3
\* Largest token id a vocabulary gives a marker.
MaxTokenId == 2

\* ------------------------------------------------------- text (str)
Q == "\""
PythonTag == "<|python_tag|>"
StartTag == "<tool_call>"
EndTag == "</tool_call>"

SetMin(S) == CHOOSE x \in S : \A y \in S : x <= y

\* sub occurs in s at (1-based) position i
MatchAt(s, sub, i) ==
    /\ i + Len(sub) - 1 <= Len(s)
    /\ \A k \in 1..Len(sub) : s[i + k - 1] = sub[k]

\* str.find: 0-based position of the first occurrence, -1 when there is none
Find(s, sub) ==
    LET hits == {i \in 1..(Len(s) + 1) : MatchAt(s, sub, i)}
    IN IF hits = {} THEN -1 ELSE SetMin(hits) - 1

\* the "in" operator on str
Contains(s, sub) == Find(s, sub) >= 0

RECURSIVE ReplaceFrom(_, _, _)
\* s from position i on without the occurrences of old, taken left to right
ReplaceFrom(s, old, i) ==
    LET hits == {j \in i..Len(s) : MatchAt(s, old, j)}
    IN IF hits = {} THEN SubSeq(s, i, Len(s))
       ELSE SubSeq(s, i, SetMin(hits) - 1)
            \o ReplaceFrom(s, old, SetMin(hits) + Len(old))

\* s.replace(old, ''): every non-overlapping occurrence, left to right;
\* an empty old leaves s as it is
StrRemove(s, old) == IF Len(old) = 0 THEN s ELSE ReplaceFrom(s, old, 1)

RECURSIVE SplitFrom(_, _, _)
\* the parts of s from position i on, cut at the occurrences of sep taken
\* left to right
SplitFrom(s, sep, i) ==
    LET hits == {j \in i..Len(s) : MatchAt(s, sep, j)}
    IN IF hits = {} THEN <<SubSeq(s, i, Len(s))>>
       ELSE <<SubSeq(s, i, SetMin(hits) - 1)>>
            \o SplitFrom(s, sep, SetMin(hits) + Len(sep))

\* s.split(sep)
StrSplit(s, sep) == SplitFrom(s, sep, 1)

\* list.count(x)
Count(seq, x) == Cardinality({i \in 1..Len(seq) : seq[i] = x})

IsPrefix(a, b) == Len(a) <= Len(b) /\ \A k \in 1..Len(a) : a[k] = b[k]

\* Python's list indexing: i in -len..len-1, a negative i counting from the end
IndexOK(seq, i) == i < Len(seq) /\ i >= 0 - Len(seq)
PyAt(seq, i) == IF i >= 0 THEN seq[i + 1] ELSE seq[Len(seq) + i + 1]
PySet(seq, i, x) ==
    [seq EXCEPT ![IF i >= 0 THEN i + 1 ELSE Len(seq) + i + 1] = x]

\* ------------------------------------------------------ JSON values
\* None, a str, an int (its digits) or a dict (its items in insertion order)
NoneV == [t |-> "none", s |-> <<>>, kv |-> <<>>]
StrV(s) == [t |-> "str", s |-> s, kv |-> <<>>]
NumV(s) == [t |-> "num", s |-> s, kv |-> <<>>]
ObjV(kv) == [t |-> "obj", s |-> <<>>, kv |-> kv]
EmptyDict == ObjV(<<>>)

Digits == {"0", "1", "2", "3", "4", "5", "6", "7", "8", "9"}

\* d[key] = val on a dict's items: a key keeps the place of its first insertion
DictPut(kv, key, val) ==
    IF \E i \in 1..Len(kv) : kv[i][1] = key
    THEN [i \in 1..Len(kv) |-> IF kv[i][1] = key THEN <<key, val>> ELSE kv[i]]
    ELSE Append(kv, <<key, val>>)

\* d.get(key) of a dict
DictGet(d, key) ==
    LET hits == {i \in 1..Len(d.kv) : d.kv[i][1] = key}
    IN IF hits = {} THEN NoneV ELSE d.kv[SetMin(hits)][2]

\* bool(v)
Truthy(v) ==
    CASE v.t = "none" -> FALSE
      [] v.t = "str" -> Len(v.s) > 0
      [] v.t = "num" -> \E i \in 1..Len(v.s) : v.s[i] # "0"
      [] v.t = "obj" -> Len(v.kv) > 0

RECURSIVE DumpsItems(_, _)
RECURSIVE Dumps(_)
\* json.dumps(v) with the default separators ", " and ": "
Dumps(v) ==
    CASE v.t = "none" -> <<"n", "u", "l", "l">>
      [] v.t = "str" -> <<Q>> \o v.s \o <<Q>>
      [] v.t = "num" -> v.s
      [] v.t = "obj" -> <<"{">> \o DumpsItems(v.kv, 1) \o <<"}">>

DumpsItems(kv, i) ==
    IF i > Len(kv) THEN <<>>
    ELSE (IF i > 1 THEN <<",", " ">> ELSE <<>>)
         \o <<Q>> \o kv[i][1] \o <<Q, ":", " ">> \o Dumps(kv[i][2])
         \o DumpsItems(kv, i + 1)

\* --------------------------------------- partial_json_parser.loads
\* A parse of t from position i: st is "ok" (a complete value, ending before
\* position i), "partial" (a truncated value, completed), "notallowed" (a
\* truncated value the flags do not allow to complete) or "bad" (malformed).
PRes(st, v, i) == [st |-> st, v |-> v, i |-> i]

RECURSIVE SkipBlank(_, _)
SkipBlank(t, i) ==
    IF i <= Len(t) /\ t[i] = " " THEN SkipBlank(t, i + 1) ELSE i

\* a string whose opening quote is at start - 1
ParseStr(t, start, allowStr) ==
    LET ends == {j \in start..Len(t) : t[j] = Q}
    IN IF ends # {}
       THEN PRes("ok", StrV(SubSeq(t, start, SetMin(ends) - 1)), SetMin(ends) + 1)
       ELSE IF allowStr
       THEN PRes("partial", StrV(SubSeq(t, start, Len(t))), Len(t) + 1)
       ELSE PRes("notallowed", NoneV, Len(t) + 1)

RECURSIVE DigitsEnd(_, _)
DigitsEnd(t, i) ==
    IF i <= Len(t) /\ t[i] \in Digits THEN DigitsEnd(t, i + 1) ELSE i

\* an integer literal; one that runs to the end of the text may still grow
\* (Allow.NUM is in both masks the parsers use)
ParseNum(t, start) ==
    LET e == DigitsEnd(t, start)
    IN PRes(IF e > Len(t) THEN "partial" ELSE "ok", NumV(SubSeq(t, start, e - 1)), e)

RECURSIVE ParseValue(_, _, _)
RECURSIVE ParseObj(_, _, _, _, _)

ParseValue(t, i, allowStr) ==
    IF t[i] = Q THEN ParseStr(t, i + 1, allowStr)
    ELSE IF t[i] = "{" THEN ParseObj(t, i + 1, <<>>, FALSE, allowStr)
    ELSE IF t[i] \in Digits THEN ParseNum(t, i)
    ELSE PRes("bad", NoneV, i)

\* the items of an object from position j0 on, acc the items read so far: a
\* truncated object is closed with the pairs that are complete, plus the last
\* pair when its value is a truncated value the flags allow to complete
ParseObj(t, j0, acc, afterComma, allowStr) ==
    LET j == SkipBlank(t, j0)
        cut == PRes("partial", ObjV(acc), Len(t) + 1)
        bad == PRes("bad", NoneV, j)
    IN IF j > Len(t) THEN cut
       ELSE IF t[j] = "}"
       THEN (IF afterComma THEN bad ELSE PRes("ok", ObjV(acc), j + 1))
       ELSE IF t[j] # Q THEN bad
       ELSE LET key == ParseStr(t, j + 1, FALSE)
                c == SkipBlank(t, key.i)
            IN IF key.st # "ok" THEN cut
               ELSE IF c > Len(t) THEN cut
               ELSE IF t[c] # ":" THEN bad
               ELSE LET vs == SkipBlank(t, c + 1) IN
                    IF vs > Len(t) THEN cut
                    ELSE LET val == ParseValue(t, vs, allowStr)
                             acc2 == DictPut(acc, key.v.s, val.v)
                             n == SkipBlank(t, val.i)
                         IN CASE val.st = "bad" -> bad
                              [] val.st = "notallowed" -> cut
                              [] val.st = "partial" ->
                                    PRes("partial", ObjV(acc2), Len(t) + 1)
                              [] val.st = "ok" ->
                                    IF n > Len(t)
                                    THEN PRes("partial", ObjV(acc2), Len(t) + 1)
                                    ELSE IF t[n] = ","
                                    THEN ParseObj(t, n + 1, acc2, TRUE, allowStr)
                                    ELSE IF t[n] = "}"
                                    THEN PRes("ok", ObjV(acc2), n + 1)
                                    ELSE bad

\* partial_json_parser.loads(t, flags), flags being Allow.ALL (allowStr) or
\* Allow.ALL & ~Allow.STR: err when it raises, else the value v
PartialLoads(t, allowStr) ==
    LET s == SkipBlank(t, 1) IN
    IF s > Len(t) THEN [err |-> TRUE, v |-> NoneV]
    ELSE LET r == ParseValue(t, s, allowStr) IN
         IF r.st \in {"bad", "notallowed"} THEN [err |-> TRUE, v |-> NoneV]
         ELSE IF r.st = "ok" /\ SkipBlank(t, r.i) <= Len(t)
         THEN [err |-> TRUE, v |-> NoneV]
         ELSE [err |-> FALSE, v |-> r.v]

\* json.loads(t): a complete document only
JsonLoads(t) ==
    LET s == SkipBlank(t, 1) IN
    IF s > Len(t) THEN [err |-> TRUE, v |-> NoneV]
    ELSE LET r == ParseValue(t, s, FALSE) IN
         IF r.st = "ok" /\ SkipBlank(t, r.i) > Len(t)
         THEN [err |-> FALSE, v |-> r.v]
         ELSE [err |-> TRUE, v |-> NoneV]

\* ------------------------------------------------- the vocabulary
\* Token ids are the names below; TokText is the text a token decodes to.
\*   S <tool_call>    E </tool_call>    H h          LB {
\*   N {"name": "     F f               A ", "arguments":     P ", "parameters":
\*   O {"a": "        X x               V a          K ", "b": "
\*   QC "}            C }               Z {}         SEP ;
\*   PT <|python_tag|>                  RA , "arguments":     RP , "parameters":
\*   G g
NameKey == <<"n", "a", "m", "e">>
ArgumentsKey == <<"a", "r", "g", "u", "m", "e", "n", "t", "s">>
ParametersKey == <<"p", "a", "r", "a", "m", "e", "t", "e", "r", "s">>

TokText(tok) ==
    CASE tok = "S" -> <<StartTag>>
      [] tok = "E" -> <<EndTag>>
      [] tok = "H" -> <<"h">>
      [] tok = "LB" -> <<"{">>
      [] tok = "N" -> <<"{", Q>> \o NameKey \o <<Q, ":", " ", Q>>
      [] tok = "F" -> <<"f">>
      [] tok = "G" -> <<"g">>
      [] tok = "A" -> <<Q, ",", " ", Q>> \o ArgumentsKey \o <<Q, ":", " ">>
      [] tok = "P" -> <<Q, ",", " ", Q>> \o ParametersKey \o <<Q, ":", " ">>
      [] tok = "O" -> <<"{", Q, "a", Q, ":", " ", Q>>
      [] tok = "X" -> <<"x">>
      [] tok = "V" -> <<"a">>
      [] tok = "K" -> <<Q, ",", " ", Q, "b", Q, ":", " ", Q>>
      [] tok = "QC" -> <<Q, "}">>
      [] tok = "C" -> <<"}">>
      [] tok = "Z" -> <<"{", "}">>
      [] tok = "SEP" -> <<";", " ">>
      [] tok = "PT" -> <<PythonTag>>
      [] tok = "RA" -> <<",", " ", Q>> \o ArgumentsKey \o <<Q, ":", " ">>
      [] tok = "RP" -> <<",", " ", Q>> \o ParametersKey \o <<Q, ":", " ">>

RECURSIVE Decode(_)
\* the text of a sequence of token ids
Decode(ids) ==
    IF ids = <<>> THEN <<>> ELSE TokText(Head(ids)) \o Decode(Tail(ids))

\* ------------------------------------------------ the streamed input
\* The tokens the model may generate after ids: tool calls in the parser's
\* format, well-formed or cut short, with plain text around them, a stray
\* end marker (before any call, or after the end of the first call), an empty
\* first call, a call without arguments, a call that gives its arguments a
\* second time, empty, a first call without arguments whose name takes two
\* tokens.
NextTokens(kind, ids) ==
    LET n == Len(ids)
        last == ids[n]
        text == IF Count(ids, "H") < MaxText THEN {"H"} ELSE {}
        empty == IF Count(ids, "S") = 1 THEN {"E"} ELSE {}
        stray == IF Count(ids, "E") = 1 /\ Count(ids, "S") = 1 THEN {"E"} ELSE {}
        longer == IF Count(ids, "N") > 1 THEN {} ELSE {"G"}
        again == IF Count(ids, "RA") + Count(ids, "RP") > 0 THEN {}
                 ELSE IF kind = "hermes" THEN {"RA"} ELSE {"RP"}
    IN IF n = 0
       THEN (IF kind = "hermes" THEN {"H", "S", "E"} ELSE {"H", "N", "LB"})
       ELSE CASE last = "H" -> (IF kind = "hermes" THEN {"S"} ELSE {}) \cup text
              [] last = "LB" -> {"H"}
              [] last = "S" -> {"N"} \cup empty
              [] last = "N" -> {"F"}
              [] last = "F" ->
                    (IF kind = "hermes" THEN {"A", "QC"} ELSE {"P", "QC", "SEP"})
                    \cup longer
              [] last = "G" -> {"QC"}
              [] last \in {"A", "P"} -> {"O", "Z"}
              [] last \in {"RA", "RP"} -> {"Z"}
              [] last = "O" -> {"X", "V"}
              [] last = "X" -> {"QC", "K"}
              [] last = "K" -> {"V"}
              [] last = "V" -> {"QC"}
              [] last = "Z" -> {"C"}
              [] last = "QC" ->
                    IF ids[n - 1] \in {"F", "G"}
                    THEN (IF kind = "hermes" THEN {"E"} ELSE {"SEP"})
                    ELSE {"C"} \cup again
              [] last = "C" -> IF kind = "hermes" THEN {"E"} ELSE {"SEP"}
              [] last = "E" -> {"S"} \cup stray \cup text
              [] last = "SEP" -> {"N"}

RECURSIVE Deltas(_, _, _)
\* the deltas of k tokens that may follow ids
Deltas(kind, ids, k) ==
    IF k = 0 THEN {<<>>}
    ELSE UNION {{<<tok>> \o d : d \in Deltas(kind, Append(ids, tok), k - 1)} :
                tok \in NextTokens(kind, ids)}

\* ------------------------------------------------------- the outputs
\* An optional str field
Nothing == [some |-> FALSE, v |-> <<>>]
Some(t) == [some |-> TRUE, v |-> t]

\* DeltaToolCall / InitialDeltaToolCall, dumped with exclude_none: the initial
\* one carries the index (with a fresh id and the type), no function
ToolDelta(index, initial, name, arguments) ==
    [index |-> index, initial |-> initial, name |-> name, arguments |-> arguments]
\* an initial delta that always names the first call
InitialDeltaToolCall_FirstIndex(index) == ToolDelta(0, TRUE, Nothing, Nothing)

InitialDeltaToolCall(index) == ToolDelta(index, TRUE, Nothing, Nothing)
NameDeltaToolCall_WithArguments(index, name) ==
    ToolDelta(index, FALSE, Some(name), Some(<<>>))
NameDeltaToolCall(index, name) == ToolDelta(index, FALSE, Some(name), Nothing)
ArgumentsDeltaToolCall(index, args) == ToolDelta(index, FALSE, Nothing, Some(args))

DeltaMessage_EmptyContent(content, tool_calls) ==
    [kind |-> "DeltaMessage", content |-> Some(content.v), tool_calls |-> tool_calls]

\* What a step hands back: a DeltaMessage, None, or an exception leaving it
DeltaMessage(content, tool_calls) ==
    [kind |-> "DeltaMessage", content |-> content, tool_calls |-> tool_calls]
ReturnNone == [kind |-> "None", content |-> Nothing, tool_calls |-> <<>>]
Raised == [kind |-> "raise", content |-> Nothing, tool_calls |-> <<>>]

\* The outcome of the body of a step: the Stream State it leaves, what it
\* returns, whether an exception was raised in it (exc) and the branch of the
\* step that was taken
Outcome(self, ret) == [self |-> self, ret |-> ret, exc |-> FALSE, branch |-> ""]
Throws(self) == [self |-> self, ret |-> Raised, exc |-> TRUE, branch |-> ""]
Branch(b, r) == [r EXCEPT !.branch = b]

CatchException_Reraise(r) == r

\* except Exception: log, return None
CatchException(r) == IF r.exc THEN [r EXCEPT !.ret = ReturnNone] ELSE r

\* ------------------------------------------------ the Stream State
\* The fields a parser instance keeps between steps, as set by __init__
InitialState ==
    [current_tool_id |-> -1,
     current_tool_name_sent |-> FALSE,
     current_tool_initial_sent |-> FALSE,
     streamed_args_for_tool |-> <<>>,
     prev_tool_call_arr |-> <<>>]

\* ------------------------------------- utils.extract_intermediate_diff
RECURSIVE CommonPrefixLen(_, _, _)
CommonPrefixLen(a, b, n) ==
    IF n < Len(a) /\ n < Len(b) /\ a[n + 1] = b[n + 1]
    THEN CommonPrefixLen(a, b, n + 1) ELSE n

RECURSIVE CommonSuffixLen(_, _, _, _)
\* the common suffix of the tails left after the first p characters
CommonSuffixLen(a, b, p, n) ==
    IF p + n < Len(a) /\ p + n < Len(b) /\ a[Len(a) - n] = b[Len(b) - n]
    THEN CommonSuffixLen(a, b, p, n + 1) ELSE n

extract_intermediate_diff(curr, old) ==
    LET p == CommonPrefixLen(curr, old, 0)
        sfx == CommonSuffixLen(curr, old, p, 0)
    IN SubSeq(curr, p + 1, Len(curr) - sfx)

\* ------------------------------- first argument chunk (both parsers)
\* cur_arguments_json[:cur_arguments_json.index(delta_text) + len(delta_text)];
\* found is FALSE when index raises ValueError
FirstArgumentsChunk(cur_arguments_json, delta_text) ==
    LET at == Find(cur_arguments_json, delta_text)
    IN [found |-> at >= 0,
        text |-> IF at >= 0 THEN SubSeq(cur_arguments_json, 1, at + Len(delta_text))
                 ELSE <<>>]

\* a parser that does not record what it streamed
AppendStreamed_Skip(self, text) == self

AppendStreamed_Assign(self, text) ==
    [self EXCEPT !.streamed_args_for_tool = PySet(@, self.current_tool_id, text)]

\* streamed_args_for_tool[current_tool_id] += text
AppendStreamed(self, text) ==
    [self EXCEPT !.streamed_args_for_tool =
        PySet(@, self.current_tool_id, PyAt(@, self.current_tool_id) \o text)]

\* a snapshot that is always added at the end
SaveSnapshot_Append(self, call) ==
    [self EXCEPT !.prev_tool_call_arr = Append(@, call)]

\* saving the current call as the snapshot of current_tool_id
SaveSnapshot(self, call) ==
    IF self.current_tool_id = Len(self.prev_tool_call_arr) - 1
    THEN [self EXCEPT !.prev_tool_call_arr = PySet(@, self.current_tool_id, call)]
    ELSE [self EXCEPT !.prev_tool_call_arr = Append(@, call)]

\* a mask that allows everything, partial strings included
PartialJsonFlags_AllowAll(self) == TRUE

\* flags = Allow.ALL if self.current_tool_name_sent else Allow.ALL & ~Allow.STR,
\* as whether partial strings are allowed
PartialJsonFlags(self) == self.current_tool_name_sent

\* ------------------------------------------- Hermes2ProToolParser
\* a new tool call starts: set cursors and state
HermesOpen(self) ==
    [self EXCEPT !.current_tool_id = @ + 1,
                 !.current_tool_name_sent = FALSE,
                 !.current_tool_initial_sent = FALSE,
                 !.streamed_args_for_tool = Append(@, <<>>)]

\* a portion that keeps the text before the last start marker
HermesToolCallPortion_WholeText(current_text) == current_text

\* current_text.split(tool_call_start_token)[-1]
HermesToolCallPortion(current_text) ==
    LET parts == StrSplit(current_text, <<StartTag>>) IN parts[Len(parts)]

\* the current tool call is being closed: what was not streamed of the last
\* snapshot's arguments is sent; when there is none the code falls through to
\* a read of tool_call_portion, which this branch never assigned
HermesClose(self) ==
    IF ~IndexOK(self.prev_tool_call_arr, self.current_tool_id) THEN Throws(self)
    ELSE LET diff == DictGet(PyAt(self.prev_tool_call_arr, self.current_tool_id),
                             ArgumentsKey)
         IN IF Truthy(diff)
            THEN Outcome(self, DeltaMessage(Nothing, <<ArgumentsDeltaToolCall(
                    self.current_tool_id,
                    StrRemove(Dumps(diff),
                              PyAt(self.streamed_args_for_tool,
                                   self.current_tool_id)))>>))
            ELSE Throws(self)

\* the arguments of the call in progress against its last snapshot
HermesArguments(self, current_tool_call, delta_text) ==
    LET s1 == IF Len(self.prev_tool_call_arr) <= self.current_tool_id
              THEN [self EXCEPT !.prev_tool_call_arr = Append(@, EmptyDict)]
              ELSE self
    IN IF ~IndexOK(s1.prev_tool_call_arr, s1.current_tool_id) THEN Throws(s1)
       ELSE IF current_tool_call.t # "obj" THEN Throws(s1)
       ELSE
       LET prev_arguments ==
               DictGet(PyAt(s1.prev_tool_call_arr, s1.current_tool_id), ArgumentsKey)
           cur_arguments == DictGet(current_tool_call, ArgumentsKey)
           first == FirstArgumentsChunk(Dumps(cur_arguments), delta_text)
           argument_diff ==
               extract_intermediate_diff(Dumps(cur_arguments), Dumps(prev_arguments))
       IN IF ~Truthy(cur_arguments)
          THEN Outcome(SaveSnapshot(s1, current_tool_call), ReturnNone)
          ELSE IF ~Truthy(prev_arguments)
          THEN (IF ~first.found THEN Throws(s1)
                ELSE Outcome(
                       SaveSnapshot(AppendStreamed(s1, first.text), current_tool_call),
                       DeltaMessage(Nothing, <<ArgumentsDeltaToolCall(
                           s1.current_tool_id, first.text)>>)))
          ELSE Outcome(
                 SaveSnapshot(AppendStreamed(s1, argument_diff), current_tool_call),
                 DeltaMessage(Nothing, <<ArgumentsDeltaToolCall(
                     s1.current_tool_id, argument_diff)>>))

\* after the branch on the counts: parse the tool call portion (None when it
\* was not taken from the text), then send the initial delta, the name or
\* the arguments
HermesSend(self, tool_call_portion, allowStr, delta_text) ==
    LET parsed == IF tool_call_portion.some /\ Len(tool_call_portion.v) > 0
                  THEN PartialLoads(tool_call_portion.v, allowStr)
                  ELSE [err |-> FALSE, v |-> NoneV]
        current_tool_call == parsed.v
        function_name == DictGet(current_tool_call, NameKey)
    IN IF parsed.err THEN Throws(self)
       ELSE IF ~self.current_tool_initial_sent
       THEN Outcome([self EXCEPT !.current_tool_initial_sent = TRUE],
                    DeltaMessage(Nothing,
                                 <<InitialDeltaToolCall(self.current_tool_id)>>))
       ELSE IF ~self.current_tool_name_sent
       THEN (IF current_tool_call.t # "obj" THEN Throws(self)
             ELSE IF ~Truthy(function_name) THEN Outcome(self, ReturnNone)
             ELSE IF function_name.t # "str"
             THEN Throws([self EXCEPT !.current_tool_name_sent = TRUE])
             ELSE Outcome([self EXCEPT !.current_tool_name_sent = TRUE],
                          DeltaMessage(Nothing, <<NameDeltaToolCall(
                              self.current_tool_id, function_name.s)>>)))
       ELSE IF ~tool_call_portion.some THEN Outcome(self, ReturnNone)
       ELSE HermesArguments(self, current_tool_call, delta_text)

HermesInvariant_NewCall(self) == Outcome(HermesOpen(self), ReturnNone)

\* the counts fit no branch: log the invariant violation, return None
HermesInvariant(self) == Outcome(self, ReturnNone)

\* the body of the try block
HermesBody(self, current_text, delta_text, previous_token_ids, current_token_ids, delta_token_ids) ==
    LET prev_tool_start_count == Count(previous_token_ids, "S")
        prev_tool_end_count == Count(previous_token_ids, "E")
        cur_tool_start_count == Count(current_token_ids, "S")
        cur_tool_end_count == Count(current_token_ids, "E")
        allowStr == PartialJsonFlags(self)
    IN IF /\ cur_tool_start_count = cur_tool_end_count
          /\ prev_tool_end_count = cur_tool_end_count
       THEN Branch("text", Outcome(self, DeltaMessage(Some(delta_text), <<>>)))
       ELSE IF /\ cur_tool_start_count > cur_tool_end_count
               /\ cur_tool_start_count > prev_tool_start_count
       THEN Branch("open",
                   HermesSend(HermesOpen(self),
                              IF Len(delta_token_ids) > 1
                              THEN Some(HermesToolCallPortion(current_text))
                              ELSE Nothing,
                              allowStr, delta_text))
       ELSE IF /\ cur_tool_start_count > cur_tool_end_count
               /\ cur_tool_start_count = prev_tool_start_count
       THEN Branch("update",
                   HermesSend(self, Some(HermesToolCallPortion(current_text)),
                              allowStr, delta_text))
       ELSE IF /\ cur_tool_start_count = cur_tool_end_count
               /\ cur_tool_end_count > prev_tool_end_count
       THEN Branch("close", HermesClose(self))
       ELSE Branch("invariant", HermesInvariant(self))

\* a parser whose plain-text step starts a tool call as well
HermesStreaming_TextOpens(self, current_text, delta_text, previous_token_ids, current_token_ids, delta_token_ids) ==
    IF Count(current_token_ids, "S") = 0
    THEN Branch("nomarker", Outcome(HermesOpen(self), DeltaMessage(Some(delta_text), <<>>)))
    ELSE CatchException(HermesBody(self, current_text, delta_text,
                previous_token_ids, current_token_ids, delta_token_ids))

\* Hermes2ProToolParser.extract_tool_calls_streaming
HermesStreaming(self, current_text, delta_text, previous_token_ids, current_token_ids, delta_token_ids) ==
    IF Count(current_token_ids, "S") = 0
    THEN Branch("nomarker", Outcome(self, DeltaMessage(Some(delta_text), <<>>)))
    ELSE CatchException(HermesBody(self, current_text, delta_text,
                previous_token_ids, current_token_ids, delta_token_ids))

\* ---------------------------------------------- Llama31ToolParser
tool_call_start_text == <<"{", Q>> \o NameKey \o <<Q, ":", " ">>

\* a new call is generated: reset the values, add an entry for this tool
LlamaOpen(self) ==
    [self EXCEPT !.current_tool_id = @ + 1,
                 !.current_tool_name_sent = FALSE,
                 !.current_tool_initial_sent = FALSE,
                 !.streamed_args_for_tool = Append(@, <<>>),
                 !.prev_tool_call_arr = Append(@, EmptyDict)]

\* closing the old call (self is the state after LlamaOpen): its dumped
\* arguments less what was streamed of them
LlamaOldDiff(self) ==
    StrRemove(Dumps(DictGet(PyAt(self.prev_tool_call_arr, self.current_tool_id - 1),
                            ArgumentsKey)),
              PyAt(self.streamed_args_for_tool, self.current_tool_id - 1))

\* the snapshot the parser stores: {'name': ..., 'arguments': ...}
LlamaSnapshot(current_function_call) ==
    ObjV(<< <<NameKey, DictGet(current_function_call, NameKey)>>,
            <<ArgumentsKey, DictGet(current_function_call, ParametersKey)>> >>)

\* ready to send argument chunks
LlamaArguments(self, current_function_call, delta_text) ==
    LET current_function_arguments == DictGet(current_function_call, ParametersKey)
        prev_function_arguments ==
            DictGet(PyAt(self.prev_tool_call_arr, self.current_tool_id), ArgumentsKey)
        cur_args_json == Dumps(current_function_arguments)
        first == FirstArgumentsChunk(cur_args_json, delta_text)
        arguments_delta ==
            IF ~Truthy(prev_function_arguments) THEN first.text
            ELSE extract_intermediate_diff(cur_args_json,
                                           Dumps(prev_function_arguments))
    IN IF ~IndexOK(self.prev_tool_call_arr, self.current_tool_id) THEN Throws(self)
       ELSE IF ~Truthy(prev_function_arguments) /\ ~first.found THEN Throws(self)
       ELSE Outcome(SaveSnapshot(AppendStreamed(self, arguments_delta),
                                 LlamaSnapshot(current_function_call)),
                    DeltaMessage(Nothing, <<ArgumentsDeltaToolCall(
                        self.current_tool_id, arguments_delta)>>))

\* from the text of the call being worked on to the delta
LlamaSend(self, generated_calls, allowStr, delta_text) ==
    LET parsed == IF IndexOK(generated_calls, self.current_tool_id)
                  THEN PartialLoads(PyAt(generated_calls, self.current_tool_id),
                                    allowStr)
                  ELSE [err |-> TRUE, v |-> NoneV]
        current_function_call == parsed.v
        function_name == DictGet(current_function_call, NameKey)
    IN IF parsed.err THEN Throws(self)
       ELSE IF ~self.current_tool_initial_sent
       THEN Outcome([self EXCEPT !.current_tool_initial_sent = TRUE],
                    DeltaMessage(Nothing,
                                 <<InitialDeltaToolCall(self.current_tool_id)>>))
       ELSE IF current_function_call.t # "obj" THEN Throws(self)
       ELSE IF ~self.current_tool_name_sent
       THEN (IF ~Truthy(function_name) THEN Outcome(self, ReturnNone)
             ELSE IF function_name.t # "str"
             THEN Throws([self EXCEPT !.current_tool_name_sent = TRUE])
             ELSE Outcome([self EXCEPT !.current_tool_name_sent = TRUE],
                          DeltaMessage(Nothing, <<NameDeltaToolCall(
                              self.current_tool_id, function_name.s)>>)))
       ELSE LlamaArguments(self, current_function_call, delta_text)

\* the body of the try block
LlamaBody(self, current_text, delta_text) ==
    LET allowStr == PartialJsonFlags(self)
        generated_calls == StrSplit(current_text, <<";", " ">>)
        opened == LlamaOpen(self)
    IN IF /\ ~Contains(current_text, tool_call_start_text)
          /\ ~Contains(tool_call_start_text, current_text)
       THEN Branch("text", Outcome(self, DeltaMessage(Some(delta_text), <<>>)))
       ELSE IF Len(generated_calls) > self.current_tool_id + 1
       THEN (IF opened.current_tool_id > 0 /\ Len(LlamaOldDiff(opened)) > 0
             THEN Branch("flush",
                         Outcome(opened, DeltaMessage(Nothing,
                             <<ArgumentsDeltaToolCall(opened.current_tool_id - 1,
                                                      LlamaOldDiff(opened))>>)))
             ELSE Branch("open",
                         LlamaSend(opened, generated_calls, allowStr, delta_text)))
       ELSE Branch("update",
                   LlamaSend(self, generated_calls, allowStr, delta_text))

\* Llama31ToolParser.extract_tool_calls_streaming
LlamaStreaming(self, current_text, delta_text) ==
    CatchException(LlamaBody(self, current_text, delta_text))


\* ------------------------------------------------ construction
\* A tokenizer: given is FALSE for None; start and end are the ids its
\* vocabulary gives '<tool_call>' and '</tool_call>', -1 for a missing entry
NoTokenizer == [given |-> FALSE, start |-> -1, end |-> -1]
Tokenizer(start, end) == [given |-> TRUE, start |-> start, end |-> end]

\* Hermes2ProToolParser.__init__: "ok", or the exception it raises
HermesInit(tokenizer) ==
    IF ~tokenizer.given THEN "ValueError"
    ELSE IF tokenizer.start = -1 \/ tokenizer.end = -1 THEN "KeyError"
    ELSE IF tokenizer.start = 0 \/ tokenizer.end = 0 THEN "RuntimeError"
    ELSE "ok"

\* Llama31JsonToolParser.__init__
LlamaJsonInit(tokenizer) == IF ~tokenizer.given THEN "ValueError" ELSE "ok"

\* the fields Llama31JsonToolParser.__init__ sets
LlamaJsonInitialState == [InitialState EXCEPT !.current_tool_id = 1]

\* the fields the constructor of a strategy sets
InitialStateOf(kind) ==
    IF kind = "llama_json" THEN LlamaJsonInitialState ELSE InitialState

\* ------------------------------------------ one-shot extraction
\* ExtractedToolCallInformation; a tool call is its function's name and
\* arguments (a str)
ExtractedToolCallInformation(tools_called, tool_calls, content) ==
    [tools_called |-> tools_called, tool_calls |-> tool_calls, content |-> content]
\* extracted holds the result once extract_tool_calls has returned
NotExtracted == <<>>
FunctionCall(name, arguments) == [name |-> name, arguments |-> arguments]

\* FunctionCall(name=d[nameKey], arguments=json.dumps(d[argsKey])) of a parsed
\* value d: ok is FALSE when d is no dict, a key is missing (KeyError) or the
\* name is no str (validation error)
ToFunctionCall(d, argsKey) ==
    LET has(key) == \E i \in 1..Len(d.kv) : d.kv[i][1] = key
        ok == /\ d.t = "obj" /\ has(NameKey) /\ has(argsKey)
              /\ DictGet(d, NameKey).t = "str"
    IN [ok |-> ok,
        call |-> IF ok THEN FunctionCall(DictGet(d, NameKey).s,
                                         Dumps(DictGet(d, argsKey)))
                 ELSE FunctionCall(<<>>, <<>>)]

\* a search that stops after its first match
HermesFindall_FirstOnly(t, pos) ==
    LET starts == {i \in pos..Len(t) : t[i] = StartTag}
    IN IF starts = {} THEN <<>>
       ELSE LET i == SetMin(starts)
                ends == {j \in (i + 1)..Len(t) : t[j] = EndTag}
            IN IF ends = {} THEN <<SubSeq(t, i + 1, Len(t))>>
               ELSE <<SubSeq(t, i + 1, SetMin(ends) - 1)>>

RECURSIVE HermesFindall(_, _)
\* tool_call_regex.findall(model_output) from position pos on: for every
\* match the text json.loads is given (group 1, or group 2 when that is empty)
HermesFindall(t, pos) ==
    LET starts == {i \in pos..Len(t) : t[i] = StartTag}
    IN IF starts = {} THEN <<>>
       ELSE LET i == SetMin(starts)
                ends == {j \in (i + 1)..Len(t) : t[j] = EndTag}
            IN IF ends = {} THEN <<SubSeq(t, i + 1, Len(t))>>
               ELSE <<SubSeq(t, i + 1, SetMin(ends) - 1)>>
                    \o HermesFindall(t, SetMin(ends) + 1)

\* Hermes2ProToolParser.extract_tool_calls
Hermes_extract_tool_calls(output) ==
    LET none == ExtractedToolCallInformation(FALSE, <<>>, Some(output))
        function_call_tuples == HermesFindall(output, 1)
        raw_function_calls ==
            [k \in 1..Len(function_call_tuples) |-> JsonLoads(function_call_tuples[k])]
        tool_calls ==
            [k \in 1..Len(raw_function_calls) |->
                ToFunctionCall(raw_function_calls[k].v, ArgumentsKey)]
        content == SubSeq(output, 1, Find(output, <<StartTag>>))
    IN IF ~Contains(output, <<StartTag>>) THEN none
       ELSE IF \E k \in 1..Len(raw_function_calls) : raw_function_calls[k].err
       THEN none
       ELSE IF \E k \in 1..Len(tool_calls) : ~tool_calls[k].ok THEN none
       ELSE ExtractedToolCallInformation(
                TRUE, [k \in 1..Len(tool_calls) |-> tool_calls[k].call],
                IF content # <<>> THEN Some(content) ELSE Nothing)

RECURSIVE LlamaToolCalls(_, _)
\* the two loops of Llama31ToolParser.extract_tool_calls from the k-th
\* generated call on: a call json.loads rejects is left out, and so is one
\* that gives no FunctionCall
LlamaToolCalls(generated_function_calls, k) ==
    IF k > Len(generated_function_calls) THEN <<>>
    ELSE LET r == JsonLoads(generated_function_calls[k])
             f == ToFunctionCall(r.v, ParametersKey)
         IN (IF ~r.err /\ f.ok THEN <<f.call>> ELSE <<>>)
            \o LlamaToolCalls(generated_function_calls, k + 1)

\* Llama31ToolParser.extract_tool_calls
Llama_extract_tool_calls(output) ==
    IF ~(/\ Contains(output, <<Q>> \o NameKey \o <<Q>>)
         /\ Contains(output, <<Q>> \o ParametersKey \o <<Q>>))
    THEN ExtractedToolCallInformation(FALSE, <<>>, Some(output))
    ELSE ExtractedToolCallInformation(
             TRUE, LlamaToolCalls(StrSplit(output, <<";", " ">>), 1), Some(<<>>))

\* the nesting the brace pattern of Llama31JsonToolParser allows
MaxBraceDepth == 4

RECURSIVE BraceEnd(_, _, _)
\* where the brace opened before position j, at the given depth, is closed
\* at depth 1; 0 when the pattern does not match
BraceEnd(t, j, depth) ==
    LET braces == {k \in j..Len(t) : t[k] \in {"{", "}"}}
        b == SetMin(braces)
    IN IF braces = {} THEN 0
       ELSE IF t[b] = "{"
       THEN (IF depth = MaxBraceDepth THEN 0 ELSE BraceEnd(t, b + 1, depth + 1))
       ELSE IF depth = 1 THEN b ELSE BraceEnd(t, b + 1, depth - 1)

\* tool_call_regex.findall(call_text)[0]: found is FALSE for IndexError
FirstBraceMatch(t) ==
    LET at == {i \in 1..Len(t) : t[i] = "{" /\ BraceEnd(t, i + 1, 1) > 0}
    IN IF at = {} THEN [found |-> FALSE, text |-> <<>>]
       ELSE [found |-> TRUE,
             text |-> SubSeq(t, SetMin(at), BraceEnd(t, SetMin(at) + 1, 1))]

\* Llama31JsonToolParser.extract_tool_calls
LlamaJson_extract_tool_calls(output) ==
    LET none == ExtractedToolCallInformation(FALSE, <<>>, Some(output))
        call_text ==
            IF IsPrefix(<<PythonTag>>, output) THEN StrRemove(output, <<PythonTag>>)
            ELSE IF Contains(output, NameKey) /\ Contains(output, ParametersKey)
            THEN output
            ELSE <<>>
        tool_call_text == FirstBraceMatch(call_text)
        tool_call == JsonLoads(tool_call_text.text)
        name == DictGet(tool_call.v, NameKey)
        parameters == DictGet(tool_call.v, ParametersKey)
    IN IF call_text = <<>> THEN none
       ELSE IF ~tool_call_text.found \/ tool_call.err THEN none
       ELSE IF tool_call.v.t # "obj" THEN none
       ELSE IF ~Truthy(name) \/ ~Truthy(parameters) THEN none
       ELSE IF name.t # "str" THEN none
       ELSE ExtractedToolCallInformation(
                TRUE, <<FunctionCall(name.s, Dumps(parameters))>>,
                Some(StrRemove(call_text, tool_call_text.text)))

\* ------------------------------------------------ the state machine
VARIABLES
    parser,                     \* which ToolParser the request constructed
    current_token_ids,          \* the token ids generated so far
    current_tool_id,
    current_tool_name_sent,
    current_tool_initial_sent,
    streamed_args_for_tool,
    prev_tool_call_arr,
    log,                        \* per step: the delta fed and what came back
    model_tokenizer,            \* the tokenizer handed to __init__
    constructed,                \* "no", "ok", or the exception __init__ raised
    model_output,               \* the complete text of a one-shot request
    extracted                   \* what extract_tool_calls returned for it

vars == <<parser, current_token_ids, current_tool_id, current_tool_name_sent,
          current_tool_initial_sent, streamed_args_for_tool, prev_tool_call_arr,
          log, model_tokenizer, constructed, model_output, extracted>>

\* the instance's fields as one record
Self ==
    [current_tool_id |-> current_tool_id,
     current_tool_name_sent |-> current_tool_name_sent,
     current_tool_initial_sent |-> current_tool_initial_sent,
     streamed_args_for_tool |-> streamed_args_for_tool,
     prev_tool_call_arr |-> prev_tool_call_arr]

current_text == Decode(current_token_ids)

Init ==
    /\ parser \in {"hermes", "llama"}
    /\ current_token_ids = <<>>
    /\ current_tool_id = InitialState.current_tool_id
    /\ current_tool_name_sent = InitialState.current_tool_name_sent
    /\ current_tool_initial_sent = InitialState.current_tool_initial_sent
    /\ streamed_args_for_tool = InitialState.streamed_args_for_tool
    /\ prev_tool_call_arr = InitialState.prev_tool_call_arr
    /\ log = <<>>
    /\ model_tokenizer = Tokenizer(1, 2)
    /\ constructed = "ok"
    /\ model_output = <<>>
    /\ extracted = NotExtracted

\* the deltas the next step may be fed; an exception that left a step ends
\* the generation loop that feeds them
NextDeltas ==
    LET spare == MaxExtra - (Len(current_token_ids) - Len(log))
    IN IF \E k \in 1..Len(log) : log[k].ret.kind = "raise" THEN {}
       ELSE UNION {Deltas(parser, current_token_ids, k) :
              k \in 1..IF MaxTokens - Len(current_token_ids) < 1 + spare
                       THEN MaxTokens - Len(current_token_ids) ELSE 1 + spare}

\* one step: the outcome r of the call is stored in the instance and logged
Stepped(delta_token_ids, r) ==
    /\ current_token_ids' = current_token_ids \o delta_token_ids
    /\ current_tool_id' = r.self.current_tool_id
    /\ current_tool_name_sent' = r.self.current_tool_name_sent
    /\ current_tool_initial_sent' = r.self.current_tool_initial_sent
    /\ streamed_args_for_tool' = r.self.streamed_args_for_tool
    /\ prev_tool_call_arr' = r.self.prev_tool_call_arr
    /\ log' = Append(log, [delta_token_ids |-> delta_token_ids,
                           ret |-> r.ret, exc |-> r.exc, branch |-> r.branch,
                           current_tool_id |-> r.self.current_tool_id,
                           flags |-> PartialJsonFlags(Self)])
    /\ UNCHANGED <<parser, model_tokenizer, constructed, model_output, extracted>>

HermesStep ==
    /\ parser = "hermes"
    /\ \E delta_token_ids \in NextDeltas :
          Stepped(delta_token_ids,
                  HermesStreaming(Self,
                                  current_text \o Decode(delta_token_ids),
                                  Decode(delta_token_ids),
                                  current_token_ids,
                                  current_token_ids \o delta_token_ids,
                                  delta_token_ids))

LlamaStep ==
    /\ parser = "llama"
    /\ \E delta_token_ids \in NextDeltas :
          Stepped(delta_token_ids,
                  LlamaStreaming(Self,
                                 current_text \o Decode(delta_token_ids),
                                 Decode(delta_token_ids)))

Next == HermesStep \/ LlamaStep

Spec == Init /\ [][Next]_vars

\* ------------------------------------------ the one-shot requests
\* The pieces a complete output is made of, as token ids: plain text, a
\* call with arguments, a call with empty arguments, a call cut short, a call
\* without its arguments, and (Hermes) a last call without its end marker,
\* (Llama 3.1) the separator, (Llama 3.1 JSON) the python tag.
Pieces(kind) ==
    IF kind = "hermes"
    THEN {<<"H">>,
          <<"S", "N", "F", "A", "O", "X", "QC", "C", "E">>,
          <<"S", "N", "F", "A", "Z", "C", "E">>,
          <<"S", "N", "F", "E">>,
          <<"S", "N", "F", "QC", "E">>,
          <<"S", "N", "F", "A", "Z", "C">>}
    ELSE {<<"H">>,
          <<"N", "F", "P", "O", "X", "QC", "C">>,
          <<"N", "F", "P", "Z", "C">>,
          <<"N", "F">>,
          <<"N", "F", "QC">>,
          <<"SEP">>} \cup (IF kind = "llama_json" THEN {<<"PT">>} ELSE {})

RECURSIVE Outputs(_, _)
\* the outputs of at most n pieces
Outputs(kind, n) ==
    IF n = 0 THEN {<<>>}
    ELSE {<<>>} \cup {p \o o : p \in Pieces(kind), o \in Outputs(kind, n - 1)}

\* the tokenizers a request may hand to the constructor
Tokenizers(kind) ==
    IF kind = "hermes"
    THEN {NoTokenizer} \cup
         ({Tokenizer(a, b) : a, b \in -1..MaxTokenId}
              \ {Tokenizer(a, a) : a \in 0..MaxTokenId})
    ELSE IF kind = "llama_json" THEN {NoTokenizer, Tokenizer(1, 2)}
    ELSE {Tokenizer(1, 2)}

\* a request before its parser is constructed
InitOneShot ==
    /\ parser \in {"hermes", "llama", "llama_json"}
    /\ model_tokenizer \in Tokenizers(parser)
    /\ model_output \in {Decode(ids) : ids \in Outputs(parser, MaxPieces)}
    /\ constructed = "no"
    /\ extracted = NotExtracted
    /\ current_token_ids = <<>>
    /\ current_tool_id = InitialState.current_tool_id
    /\ current_tool_name_sent = InitialState.current_tool_name_sent
    /\ current_tool_initial_sent = InitialState.current_tool_initial_sent
    /\ streamed_args_for_tool = InitialState.streamed_args_for_tool
    /\ prev_tool_call_arr = InitialState.prev_tool_call_arr
    /\ log = <<>>

\* the request constructs its parser
Construct ==
    /\ constructed = "no"
    /\ constructed' = CASE parser = "hermes" -> HermesInit(model_tokenizer)
                        [] parser = "llama_json" -> LlamaJsonInit(model_tokenizer)
                        [] parser = "llama" -> "ok"
    /\ current_tool_id' = InitialStateOf(parser).current_tool_id
    /\ current_tool_name_sent' = InitialStateOf(parser).current_tool_name_sent
    /\ current_tool_initial_sent' = InitialStateOf(parser).current_tool_initial_sent
    /\ streamed_args_for_tool' = InitialStateOf(parser).streamed_args_for_tool
    /\ prev_tool_call_arr' = InitialStateOf(parser).prev_tool_call_arr
    /\ UNCHANGED <<parser, current_token_ids, log,
                   model_tokenizer, model_output, extracted>>

\* the request hands the complete output to extract_tool_calls
Extracted(kind, result) ==
    /\ parser = kind
    /\ constructed = "ok"
    /\ extracted = NotExtracted
    /\ extracted' = <<result>>
    /\ UNCHANGED <<parser, current_token_ids, current_tool_id,
                   current_tool_name_sent, current_tool_initial_sent,
                   streamed_args_for_tool, prev_tool_call_arr, log,
                   model_tokenizer, constructed, model_output>>

HermesExtract == Extracted("hermes", Hermes_extract_tool_calls(model_output))
LlamaExtract == Extracted("llama", Llama_extract_tool_calls(model_output))
LlamaJsonExtract == Extracted("llama_json", LlamaJson_extract_tool_calls(model_output))

NextOneShot == Construct \/ HermesExtract \/ LlamaExtract \/ LlamaJsonExtract

SpecOneShot == InitOneShot /\ [][NextOneShot]_vars

\* ------------------------------------------- reading the log and text
LastStep == log[Len(log)]

\* the tool-call deltas step k returned
ToolCalls(k) == log[k].ret.tool_calls
InitialAt(k, i) ==
    \E j \in 1..Len(ToolCalls(k)) : ToolCalls(k)[j].index = i /\ ToolCalls(k)[j].initial
NameAt(k, i) ==
    \E j \in 1..Len(ToolCalls(k)) : ToolCalls(k)[j].index = i /\ ToolCalls(k)[j].name.some
ArgumentsAt(k, i) ==
    \E j \in 1..Len(ToolCalls(k)) :
        ToolCalls(k)[j].index = i /\ ToolCalls(k)[j].arguments.some

RECURSIVE ArgumentsIn(_, _, _)
\* the arguments the deltas of one step carry for index i, in order
ArgumentsIn(tcs, i, j) ==
    IF j > Len(tcs) THEN <<>>
    ELSE (IF tcs[j].index = i /\ tcs[j].arguments.some THEN tcs[j].arguments.v
          ELSE <<>>) \o ArgumentsIn(tcs, i, j + 1)

RECURSIVE EmittedArgumentsFrom(_, _)
EmittedArgumentsFrom(i, k) ==
    IF k > Len(log) THEN <<>>
    ELSE ArgumentsIn(ToolCalls(k), i, 1) \o EmittedArgumentsFrom(i, k + 1)

\* all arguments deltas emitted with index i, concatenated in emission order
EmittedArguments(i) == EmittedArgumentsFrom(i, 1)

RECURSIVE EmittedContentFrom(_)
EmittedContentFrom(k) ==
    IF k > Len(log) THEN <<>>
    ELSE (IF log[k].ret.content.some THEN log[k].ret.content.v ELSE <<>>)
         \o EmittedContentFrom(k + 1)

\* all content deltas emitted, concatenated in emission order
EmittedContent == EmittedContentFrom(1)

\* The calls of the text generated so far, in document order: for Hermes the
\* texts that follow each start marker, up to the end marker that closes it;
\* for Llama 3.1 the texts between the separators.
CallParts ==
    IF parser = "hermes" THEN Tail(StrSplit(current_text, <<StartTag>>))
    ELSE StrSplit(current_text, <<";", " ">>)
NumCalls == Len(CallParts)
CallText(i) ==
    IF parser = "hermes" THEN StrSplit(CallParts[i + 1], <<EndTag>>)[1]
    ELSE CallParts[i + 1]
\* call i is over: its end marker, or the separator after it, has arrived
CallClosed(i) ==
    IF parser = "hermes" THEN Len(StrSplit(CallParts[i + 1], <<EndTag>>)) > 1
    ELSE i + 1 < NumCalls
ArgsKey == IF parser = "hermes" THEN ArgumentsKey ELSE ParametersKey
\* the text of call i is a complete JSON object with a name and arguments
CallWellFormed(i) ==
    LET r == JsonLoads(CallText(i)) IN
    /\ ~r.err
    /\ r.v.t = "obj"
    /\ DictGet(r.v, NameKey).t = "str"
    /\ Len(DictGet(r.v, NameKey).s) > 0
    /\ DictGet(r.v, ArgsKey).t = "obj"
FinalArguments(i) == Dumps(DictGet(JsonLoads(CallText(i)).v, ArgsKey))

RECURSIVE TokensAt(_)
\* how many token ids had arrived by the end of step k
TokensAt(k) == IF k = 0 THEN 0 ELSE TokensAt(k - 1) + Len(log[k].delta_token_ids)

\* the step in which current_tool_id first reached i
IndexOpenedAt(i) == SetMin({k \in 1..Len(log) : log[k].current_tool_id >= i})

\* the call of the text that index i was opened for: the newest call of the
\* text as it was in the step that opened i
CallOfIndex(i) ==
    LET ids == SubSeq(current_token_ids, 1, TokensAt(IndexOpenedAt(i)))
    IN IF parser = "hermes" THEN Count(ids, "S") - 1
       ELSE Len(StrSplit(Decode(ids), <<";", " ">>)) - 1

\* index i stands for a call of the text that is complete and well-formed
CallComplete(i) ==
    /\ CallOfIndex(i) \in 0..(NumCalls - 1)
    /\ CallClosed(CallOfIndex(i))
    /\ CallWellFormed(CallOfIndex(i))

\* every step of the stream so far delivered one token
OneTokenPerStep == \A k \in 1..Len(log) : Len(log[k].delta_token_ids) = 1

\* -------------------------------------------------------------- C1
\* C1 (as stated, for the streams delivered one token a step): for every
\* call index i whose call is complete, the arguments deltas emitted with
\* index i, concatenated in emission order, equal json.dumps of the call's
\* final arguments.
C1_MonotonicReconstruction ==
    OneTokenPerStep =>
        \A i \in 0..current_tool_id :
            CallComplete(i) => EmittedArguments(i) = FinalArguments(CallOfIndex(i))

\* -------------------------------------------------------------- C2
\* C2 (as stated): for every index i the initial delta comes before the name
\* delta, and the name delta before any arguments delta: a step that emits
\* the name of i follows one that emitted its initial delta, and a step that
\* emits arguments of i (a flush included) follows one that emitted its name.
C2_Ordering ==
    \A k \in 1..Len(log) : \A i \in 0..current_tool_id :
        /\ NameAt(k, i) => \E j \in 1..(k - 1) : InitialAt(j, i)
        /\ ArgumentsAt(k, i) => \E j \in 1..(k - 1) : NameAt(j, i)

\* -------------------------------------------------------------- C3
InitialCount(i) == Cardinality({k \in 1..Len(log) : InitialAt(k, i)})
NameCount(i) == Cardinality({k \in 1..Len(log) : NameAt(k, i)})

\* C3 (as stated): for every opened index the initial delta and the name
\* delta are each emitted at most once, and exactly once when the call is
\* well-formed and was fed to its completion.
C3_ExactlyOnce ==
    /\ \A i \in 0..current_tool_id : InitialCount(i) <= 1 /\ NameCount(i) <= 1
    /\ \A i \in 0..current_tool_id :
          CallComplete(i) => InitialCount(i) = 1 /\ NameCount(i) = 1

\* -------------------------------------------------------------- C4
\* the tool calls that have opened in the text so far: the start markers of
\* Hermes; for Llama 3.1 the separated texts of a text taken for tool calls
CallsOpened ==
    IF parser = "hermes" THEN Count(current_token_ids, "S")
    ELSE IF \/ Contains(current_text, tool_call_start_text)
            \/ Contains(tool_call_start_text, current_text)
         THEN Len(CallParts) ELSE 0

\* C4 (as stated): a step leaves current_tool_id as it is or advances it by
\* one, and after every step it counts the calls opened so far: no advance
\* without a call, no call without an index.
C4_IndexAdvancesPerCall ==
    [][/\ current_tool_id' \in {current_tool_id, current_tool_id + 1}
       /\ current_tool_id' + 1 = CallsOpened']_vars

\* -------------------------------------------------------------- C5
\* C5: no step shortens or rewrites an entry of streamed_args_for_tool: each
\* entry is a prefix of what it is after the step, and no entry is dropped.
C5_StreamedAppendOnly ==
    [][/\ Len(streamed_args_for_tool) <= Len(streamed_args_for_tool')
       /\ \A i \in 1..Len(streamed_args_for_tool) :
             IsPrefix(streamed_args_for_tool[i], streamed_args_for_tool'[i])]_vars

\* an entry has grown in two steps: a first chunk and a later diff
C5_Witness ==
    \E i \in 0..current_tool_id :
        /\ Cardinality({k \in 1..Len(log) :
              ArgumentsAt(k, i) /\ Len(ArgumentsIn(ToolCalls(k), i, 1)) > 0}) >= 2
        /\ streamed_args_for_tool[i + 1] = EmittedArguments(i)
        /\ Len(streamed_args_for_tool[i + 1]) > 0

\* -------------------------------------------------------------- C6
\* the last step closed a call by sending what was left of its arguments:
\* the index of that call, -1 when the last step was no such step
FlushedIndex ==
    IF log = <<>> \/ LastStep.exc THEN -1
    ELSE IF LastStep.branch = "close" THEN current_tool_id
    ELSE IF LastStep.branch = "flush" THEN current_tool_id - 1
    ELSE -1

\* C6 (as stated, for the streams delivered one token a step): after the
\* step that closes call i and flushes the rest of its arguments,
\* streamed_args_for_tool[i] is json.dumps of the call's final arguments.
C6_StreamedCompleteAtClose ==
    OneTokenPerStep =>
        \A i \in 0..current_tool_id :
            i = FlushedIndex /\ CallComplete(i)
                => streamed_args_for_tool[i + 1] = FinalArguments(CallOfIndex(i))

\* -------------------------------------------------------------- C7
StartCount == Count(current_token_ids, "S")
EndCount == Count(current_token_ids, "E")

C8_NeverRaises ==
    \A k \in 1..Len(log) :
        /\ log[k].ret.kind \in {"DeltaMessage", "None"}
        /\ log[k].exc => log[k].ret = ReturnNone

\* a step failed inside and a later step of the stream sent a tool-call delta
C8_Witness ==
    \E k \in 1..Len(log) : \E j \in (k + 1)..Len(log) :
        /\ log[k].exc
        /\ log[j].ret.kind = "DeltaMessage"
        /\ Len(log[j].ret.tool_calls) > 0

\* -------------------------------------------------------------- C9
\* C9 (as stated): a step that fails inside, by the invariant branch or by an
\* exception caught at its boundary, returns nothing and leaves every field
\* of the Stream State as it was.
C9_StateUnchangedOnFailure ==
    [][LastStep'.exc \/ LastStep'.branch = "invariant"
         => /\ LastStep'.ret = ReturnNone
            /\ UNCHANGED <<current_tool_id, current_tool_name_sent,
                           current_tool_initial_sent, streamed_args_for_tool,
                           prev_tool_call_arr>>]_vars

\* -------------------------------------------------------------- C10
\* the text holds a tool-call marker: the start token of Hermes, the call
\* start text of Llama 3.1
HasMarker ==
    IF parser = "hermes" THEN Contains(current_text, <<StartTag>>)
    ELSE Contains(current_text, tool_call_start_text)

\* C10 (as stated): while the text holds no tool-call marker, every step has
\* returned its delta_text as content, so the content deltas concatenated
\* are the whole text.
C10_NoCallPassthrough ==
    ~HasMarker =>
        /\ \A k \in 1..Len(log) :
              log[k].ret = DeltaMessage(Some(Decode(log[k].delta_token_ids)), <<>>)
        /\ EmittedContent = current_text

\* -------------------------------------------------------------- C11
\* C11: every DeltaMessage a step returned carries content or tool calls,
\* and never both.
C11_ContentXorToolCalls ==
    \A k \in 1..Len(log) :
        log[k].ret.kind = "DeltaMessage"
            => log[k].ret.content.some # (Len(ToolCalls(k)) > 0)

\* the stream has had a content delta and, later, a tool-call delta
C11_Witness ==
    \E k \in 1..Len(log) : \E j \in (k + 1)..Len(log) :
        /\ log[k].ret.kind = "DeltaMessage" /\ log[k].ret.content.some
        /\ log[j].ret.kind = "DeltaMessage" /\ Len(ToolCalls(j)) > 0

\* -------------------------------------------------------------- C12
\* the three shapes of a tool-call delta
IsInitialDelta(tc) == tc.initial /\ ~tc.name.some /\ ~tc.arguments.some
IsNameDelta(tc) == ~tc.initial /\ tc.name.some /\ ~tc.arguments.some
IsArgumentsDelta(tc) == ~tc.initial /\ ~tc.name.some /\ tc.arguments.some

\* C12: a step returns at most one tool-call delta; the delta is an initial
\* delta (index only), a name delta (name, no arguments) or an arguments
\* delta (arguments, no name); the step that returns the initial delta
\* returns nothing else and leaves current_tool_initial_sent true.
C12_DeltaShapes ==
    [][LET tcs == LastStep'.ret.tool_calls IN
       /\ Len(tcs) <= 1
       /\ \A j \in 1..Len(tcs) :
             /\ IsInitialDelta(tcs[j]) \/ IsNameDelta(tcs[j]) \/ IsArgumentsDelta(tcs[j])
             /\ tcs[j].initial =>
                   /\ ~LastStep'.ret.content.some
                   /\ current_tool_initial_sent']_vars

\* one index has had its initial, its name and an arguments delta
C12_Witness ==
    \E i \in 0..current_tool_id :
        /\ InitialCount(i) = 1 /\ NameCount(i) = 1
        /\ \E k \in 1..Len(log) : ArgumentsAt(k, i)
        /\ \A k \in 1..Len(log) : Len(ToolCalls(k)) <= 1

\* ------------------------------------------- reading a one-shot result
\* the result extract_tool_calls returned
Result == extracted[1]

\* the key a strategy reads a call's arguments from
ArgsKeyOf(kind) == IF kind = "hermes" THEN ArgumentsKey ELSE ParametersKey

\* the candidate spans of an output: (Hermes) the texts after a start marker,
\* (Llama 3.1) the parts between the separators of a text that names both
\* keys, (Llama 3.1 JSON) the first brace-balanced text
CandidateSpans(kind, output) ==
    CASE kind = "hermes" -> HermesFindall(output, 1)
      [] kind = "llama" ->
            IF /\ Contains(output, <<Q>> \o NameKey \o <<Q>>)
               /\ Contains(output, <<Q>> \o ParametersKey \o <<Q>>)
            THEN StrSplit(output, <<";", " ">>) ELSE <<>>
      [] kind = "llama_json" ->
            LET call_text ==
                    IF IsPrefix(<<PythonTag>>, output)
                    THEN StrRemove(output, <<PythonTag>>)
                    ELSE IF Contains(output, NameKey) /\ Contains(output, ParametersKey)
                    THEN output ELSE <<>>
            IN IF FirstBraceMatch(call_text).found
               THEN <<FirstBraceMatch(call_text).text>> ELSE <<>>

\* a span is accepted when it is a JSON object with a name and arguments
\* (Llama 3.1 JSON: neither of them empty)
SpanAccepted(kind, span) ==
    LET r == JsonLoads(span) IN
    /\ ~r.err
    /\ ToFunctionCall(r.v, ArgsKeyOf(kind)).ok
    /\ kind = "llama_json" =>
          Truthy(DictGet(r.v, NameKey)) /\ Truthy(DictGet(r.v, ParametersKey))

\* the call of an accepted span
SpanCall(kind, span) == ToFunctionCall(JsonLoads(span).v, ArgsKeyOf(kind)).call

RECURSIVE AcceptedCalls(_, _, _)
\* the calls of the accepted spans from the k-th span on, in order
AcceptedCalls(kind, spans, k) ==
    IF k > Len(spans) THEN <<>>
    ELSE (IF SpanAccepted(kind, spans[k]) THEN <<SpanCall(kind, spans[k])>> ELSE <<>>)
         \o AcceptedCalls(kind, spans, k + 1)

\* -------------------------------------------------------------- C13
\* C13 (as stated): the result of extract_tool_calls has tools_called true
\* exactly when its tool_calls is not empty.
C13_ToolsCalledIffToolCalls ==
    extracted # NotExtracted =>
        Result.tools_called = (Len(Result.tool_calls) > 0)

\* -------------------------------------------------------------- C14
\* a malformed span lies between two accepted spans
MalformedBetweenValid(kind, spans) ==
    \E i, j, k \in 1..Len(spans) :
        /\ i < j /\ j < k
        /\ SpanAccepted(kind, spans[i])
        /\ ~SpanAccepted(kind, spans[j])
        /\ SpanAccepted(kind, spans[k])

\* C14 (as stated): when a malformed span lies between two accepted spans,
\* the result of the Hermes and of the Llama 3.1 extraction holds the calls
\* of the accepted spans in order.
C14_PartialFailureIsolation ==
    LET spans == CandidateSpans(parser, model_output) IN
    (/\ extracted # NotExtracted
     /\ parser \in {"hermes", "llama"}
     /\ MalformedBetweenValid(parser, spans))
        => Result.tool_calls = AcceptedCalls(parser, spans, 1)

\* -------------------------------------------------------------- C15
\* C15 (as stated): when no span of the output is accepted, the result is
\* tools_called false, no tool calls, and the whole output as content.
C15_NothingAcceptedPassthrough ==
    (/\ extracted # NotExtracted
     /\ AcceptedCalls(parser, CandidateSpans(parser, model_output), 1) = <<>>)
        => Result = ExtractedToolCallInformation(FALSE, <<>>, Some(model_output))

\* -------------------------------------------------------------- C16
\* a part of the output after a start marker, up to its end marker
SpanOfPart(part) ==
    IF Contains(part, <<EndTag>>) THEN SubSeq(part, 1, Find(part, <<EndTag>>))
    ELSE part

\* the parts of the output the start markers cut it into; the first is the
\* text before the first start marker
PartsOf(output) == StrSplit(output, <<StartTag>>)

\* every part after a start marker is an accepted span closed by an end
\* marker, save that the last may run to the end of the text
WellFormedSpans(output) ==
    /\ Len(PartsOf(output)) >= 2
    /\ \A k \in 2..Len(PartsOf(output)) :
          /\ SpanAccepted("hermes", SpanOfPart(PartsOf(output)[k]))
          /\ k < Len(PartsOf(output)) => Contains(PartsOf(output)[k], <<EndTag>>)

\* C16: for a Hermes output whose spans are all well-formed, the result has
\* tools_called true, one tool call per span in the order of the spans, each
\* with the span's name and its arguments serialized again, and as content
\* the text before the first start marker, or None when there is none.
C16_HermesWellFormedSpans ==
    (/\ extracted # NotExtracted
     /\ parser = "hermes"
     /\ WellFormedSpans(model_output))
        => LET parts == PartsOf(model_output) IN
           /\ Result.tools_called
           /\ Len(Result.tool_calls) = Len(parts) - 1
           /\ \A k \in 2..Len(parts) :
                 LET d == JsonLoads(SpanOfPart(parts[k])).v IN
                 /\ Result.tool_calls[k - 1].name = DictGet(d, NameKey).s
                 /\ Result.tool_calls[k - 1].arguments = Dumps(DictGet(d, ArgumentsKey))
           /\ Result.content = IF parts[1] = <<>> THEN Nothing ELSE Some(parts[1])

\* a Hermes output with content and then two calls of different arguments,
\* the last without its end marker, has been extracted
C16_Witness ==
    /\ extracted # NotExtracted
    /\ parser = "hermes"
    /\ WellFormedSpans(model_output)
    /\ Len(PartsOf(model_output)) = 3
    /\ PartsOf(model_output)[1] # <<>>
    /\ ~Contains(PartsOf(model_output)[3], <<EndTag>>)
    /\ Result.tool_calls[1].arguments # Result.tool_calls[2].arguments

\* -------------------------------------------------------------- C17
\* C17 (as stated): constructing the Hermes strategy fails without a
\* tokenizer or when the vocabulary lacks a marker, and succeeds for every
\* vocabulary that holds both markers, whatever their token ids.
C17_ConstructionValidation ==
    (parser = "hermes" /\ constructed # "no")
        => ((constructed = "ok")
               <=> (/\ model_tokenizer.given
                    /\ model_tokenizer.start # -1
                    /\ model_tokenizer.end # -1))

\* -------------------------------------------------------------- C18
\* C18 (as stated): a step on which a new call opens (Hermes: the count of
\* start markers rose and exceeds the count of end markers; Llama 3.1: the
\* step took the branch of a new call) advances current_tool_id by one,
\* leaves current_tool_name_sent false, leaves current_tool_initial_sent
\* true only by returning the initial delta of the new index, and appends an
\* empty entry to streamed_args_for_tool and to prev_tool_call_arr, so that
\* both have an entry at the new index.
C18_OpenStep ==
    [][(\/ /\ parser = "hermes"
           /\ Count(current_token_ids', "S") > Count(current_token_ids, "S")
           /\ Count(current_token_ids', "S") > Count(current_token_ids', "E")
        \/ /\ parser = "llama"
           /\ LastStep'.branch \in {"open", "flush"})
       => /\ current_tool_id' = current_tool_id + 1
          /\ ~current_tool_name_sent'
          /\ current_tool_initial_sent' =>
                \E j \in 1..Len(LastStep'.ret.tool_calls) :
                    /\ LastStep'.ret.tool_calls[j].index = current_tool_id'
                    /\ LastStep'.ret.tool_calls[j].initial
          /\ streamed_args_for_tool' = Append(streamed_args_for_tool, <<>>)
          /\ Len(streamed_args_for_tool') > current_tool_id'
          /\ Len(prev_tool_call_arr') = Len(prev_tool_call_arr) + 1
          /\ Len(prev_tool_call_arr') > current_tool_id']_vars

\* -------------------------------------------------------------- C19
\* C19 (as stated, for the Hermes streams delivered one token a step): on
\* the step that brings the end marker of a complete call, the count of end
\* markers reaching the count of start markers, the arguments the step emits
\* for current_tool_id are what json.dumps of the call's final arguments
\* holds beyond streamed_args_for_tool, and current_tool_id is the one of
\* the step before.
C19_CloseEmitsRemainder ==
    (/\ parser = "hermes"
     /\ OneTokenPerStep
     /\ Len(log) > 1
     /\ LastStep.delta_token_ids = <<"E">>
     /\ StartCount = EndCount
     /\ current_tool_id >= 0
     /\ CallComplete(current_tool_id))
        => /\ PyAt(streamed_args_for_tool, current_tool_id)
                  \o ArgumentsIn(LastStep.ret.tool_calls, current_tool_id, 1)
              = FinalArguments(CallOfIndex(current_tool_id))
           /\ log[Len(log) - 1].current_tool_id = current_tool_id

\* -------------------------------------------------------------- C20
\* C20 (as stated): on a Hermes step where the text holds a call, the count
\* of start markers equals the count of end markers and neither count has
\* changed since the step before, the step returns no content delta.
C20_Rule3AsStated ==
    [][(/\ parser = "hermes"
        /\ StartCount' >= 1
        /\ StartCount' = EndCount'
        /\ StartCount' = StartCount
        /\ EndCount' = EndCount)
       => ~LastStep'.ret.content.some]_vars

\* C20 (amended): on a Hermes step where the count of start markers exceeds
\* the count of end markers and has not changed since the step before, the
\* step is handled as inside an open call: it returns no content delta, and
\* it reads the text after the last start marker with the tolerant JSON
\* reader under the mask (strings may be partial only once the name was
\* sent): when the initial delta was sent and the name was not, and that
\* reading gives an object with a name, the step returns this name; when
\* both were sent and the step does not raise, the snapshot it stores for
\* current_tool_id is that reading.
C20_Rule3InsideOpenCall ==
    [][(/\ parser = "hermes"
        /\ StartCount' > EndCount'
        /\ StartCount' = StartCount)
       => \A text \in {Decode(current_token_ids')} :
          \A portion \in {StrSplit(text, <<StartTag>>)[Count(text, StartTag) + 1]} :
          \A read \in {PartialLoads(portion, current_tool_name_sent)} :
          \A name \in {DictGet(read.v, NameKey)} :
             /\ ~LastStep'.ret.content.some
             /\ (/\ current_tool_initial_sent /\ ~current_tool_name_sent
                 /\ Len(portion) > 0 /\ ~read.err /\ read.v.t = "obj"
                 /\ name.t = "str" /\ Len(name.s) > 0)
                => /\ LastStep'.ret = DeltaMessage(Nothing,
                          <<NameDeltaToolCall(current_tool_id, name.s)>>)
                   /\ current_tool_name_sent'
             /\ (/\ current_tool_initial_sent /\ current_tool_name_sent
                 /\ ~LastStep'.exc)
                => /\ Len(portion) > 0 /\ ~read.err
                   /\ PyAt(prev_tool_call_arr', current_tool_id') = read.v]_vars

\* a Hermes stream with content before its call is inside the open call, and
\* its last step, which brought no start marker, returned arguments and
\* stored the reading of the text after the start marker
C20_Witness ==
    /\ parser = "hermes"
    /\ Len(log) > 1
    /\ StartCount > EndCount
    /\ Count(LastStep.delta_token_ids, "S") = 0
    /\ current_text[1] # StartTag
    /\ ArgumentsAt(Len(log), current_tool_id)
    /\ NameCount(current_tool_id) = 1
    /\ PyAt(prev_tool_call_arr, current_tool_id)
          = PartialLoads(HermesToolCallPortion(current_text), TRUE).v

\* -------------------------------------------------------------- C27
\* C27: a step that returns a content delta returns its delta_text as the
\* content, with no tool calls, and changes no field of the Stream State.
C27_ContentStepKeepsState ==
    [][LastStep'.ret.content.some
       => /\ LastStep'.ret = DeltaMessage(Some(Decode(LastStep'.delta_token_ids)), <<>>)
          /\ UNCHANGED <<current_tool_id, current_tool_name_sent,
                         current_tool_initial_sent, streamed_args_for_tool,
                         prev_tool_call_arr>>]_vars

\* content was returned after a call that streamed arguments
C27_Witness ==
    /\ Len(log) > 1
    /\ LastStep.ret.content.some
    /\ \E j \in 1..(Len(log) - 1) : ArgumentsAt(j, 0)
    /\ Len(streamed_args_for_tool) > 0
    /\ Len(streamed_args_for_tool[1]) > 0

\* -------------------------------------------------------------- C28
\* C28 (as stated): every strategy instance is constructed with
\* current_tool_id -1, both flags false, and streamed_args_for_tool and
\* prev_tool_call_arr empty.
C28_InitialStreamState ==
    constructed = "ok" =>
        /\ current_tool_id = -1
        /\ ~current_tool_initial_sent
        /\ ~current_tool_name_sent
        /\ streamed_args_for_tool = <<>>
        /\ prev_tool_call_arr = <<>>

C26_PriorIndicesFrozen ==
    [][\A i \in 0..(current_tool_id - 1) :
          /\ i < Len(streamed_args_for_tool) =>
                /\ i < Len(streamed_args_for_tool')
                /\ streamed_args_for_tool'[i + 1] = streamed_args_for_tool[i + 1]
          /\ i < Len(prev_tool_call_arr) =>
                /\ i < Len(prev_tool_call_arr')
                /\ prev_tool_call_arr'[i + 1] = prev_tool_call_arr[i + 1]
          /\ i >= Len(prev_tool_call_arr) => i >= Len(prev_tool_call_arr')]_vars

\* -------------------------------------------------------------- C23
\* the greatest member of a set of numbers
SetMax(S) == CHOOSE x \in S : \A y \in S : y <= x

\* the length of the longest common prefix of a and b
LongestCommonPrefix(a, b) ==
    SetMax({n \in 0..Len(a) : n <= Len(b) /\ SubSeq(a, 1, n) = SubSeq(b, 1, n)})

\* the length of the longest common suffix of what a and b have after their
\* first p characters
LongestCommonSuffix(a, b, p) ==
    SetMax({n \in 0..(Len(a) - p) :
               /\ n <= Len(b) - p
               /\ SubSeq(a, Len(a) - n + 1, Len(a)) = SubSeq(b, Len(b) - n + 1, Len(b))})

\* the text of the call in progress after a step that opens no call
WorkingText(text, id) ==
    IF parser = "hermes" THEN StrSplit(text, <<StartTag>>)[Count(text, StartTag) + 1]
    ELSE PyAt(StrSplit(text, <<";", " ">>), id)

\* the step that leads to text opens no call and stays in the call in progress
UpdateStep(ids_before, ids, id) ==
    IF parser = "hermes"
    THEN /\ Count(ids, "S") > Count(ids, "E")
         /\ Count(ids, "S") = Count(ids_before, "S")
    ELSE /\ id >= 0
         /\ Len(StrSplit(Decode(ids), <<";", " ">>)) = id + 1
         /\ Contains(Decode(ids), tool_call_start_text)

RawArguments(working) ==
    LET key == <<Q>> \o ArgsKey \o <<Q, ":", " ">>
    IN IF Contains(working, key)
       THEN SubSeq(working, Find(working, key) + Len(key) + 1, Len(working))
       ELSE <<>>

\* a ends with b
IsSuffix(b, a) ==
    Len(b) <= Len(a) /\ SubSeq(a, Len(a) - Len(b) + 1, Len(a)) = b

\* C22 (as stated): on a step in the call in progress, with the initial
\* delta and the name sent, the current parse holding arguments, no stored
\* snapshot holding arguments, and the delta text lying in the arguments
\* received, the step returns one arguments delta for current_tool_id; its
\* text is a prefix of json.dumps of the current arguments that ends with
\* the delta text and covers the arguments received so far; the text is
\* appended to streamed_args_for_tool at current_tool_id and the current
\* parse is stored as the snapshot.
C22_FirstArgumentChunk ==
    [][\A ids \in {current_token_ids'} :
       \A delta_text \in {Decode(LastStep'.delta_token_ids)} :
       \A working \in {WorkingText(Decode(ids), current_tool_id)} :
       \A raw \in {RawArguments(working)} :
       \A read \in {PartialLoads(working, TRUE)} :
       \A old_arguments \in {IF IndexOK(prev_tool_call_arr, current_tool_id)
                             THEN DictGet(PyAt(prev_tool_call_arr, current_tool_id),
                                          ArgumentsKey)
                             ELSE NoneV} :
       (/\ current_tool_initial_sent /\ current_tool_name_sent
        /\ UpdateStep(current_token_ids, ids, current_tool_id)
        /\ ~read.err /\ read.v.t = "obj"
        /\ Truthy(DictGet(read.v, ArgsKey))
        /\ ~Truthy(old_arguments)
        /\ IsSuffix(delta_text, raw))
       => \A new \in {Dumps(DictGet(read.v, ArgsKey))} :
          \A sent \in {ArgumentsIn(LastStep'.ret.tool_calls, current_tool_id, 1)} :
             /\ Len(LastStep'.ret.tool_calls) = 1
             /\ LastStep'.ret.tool_calls[1].index = current_tool_id
             /\ LastStep'.ret.tool_calls[1].arguments.some
             /\ IsPrefix(sent, new)
             /\ IsSuffix(delta_text, sent)
             /\ Len(sent) >= LongestCommonPrefix(raw, new)
             /\ PyAt(streamed_args_for_tool', current_tool_id)
                   = PyAt(streamed_args_for_tool, current_tool_id) \o sent
             /\ IndexOK(prev_tool_call_arr', current_tool_id)
             /\ DictGet(PyAt(prev_tool_call_arr', current_tool_id), ArgumentsKey)
                   = DictGet(read.v, ArgsKey)]_vars

\* -------------------------------------------------------------- C24
\* C24 (as stated): on a step that parses the text of the call in progress,
\* partial strings are allowed exactly when the name of the call that
\* current_tool_id stands for after the step's open handling has been sent:
\* not on a step that opens a call, and by current_tool_name_sent otherwise.
C24_PermissionMask ==
    [][\A ids \in {current_token_ids'} :
       \A working \in {WorkingText(Decode(ids), current_tool_id')} :
       (/\ LastStep'.branch \in {"open", "update"}
        /\ parser = "hermes" =>
              /\ Len(working) > 0
              /\ LastStep'.branch = "open" => Len(LastStep'.delta_token_ids) > 1)
       => LastStep'.flags = IF current_tool_id' > current_tool_id THEN FALSE
                            ELSE current_tool_name_sent]_vars

\* -------------------------------------------------------------- C25
\* the text of call c (counted from 0) in a text, <<>> when the text has no
\* such call
CallTextIn(text, c) ==
    LET parts == IF parser = "hermes" THEN Tail(StrSplit(text, <<StartTag>>))
                 ELSE StrSplit(text, <<";", " ">>)
    IN IF c < 0 \/ c >= Len(parts) THEN <<>>
       ELSE IF parser = "hermes" THEN StrSplit(parts[c + 1], <<EndTag>>)[1]
       ELSE parts[c + 1]

\* the text generated up to the end of step k
TextAt(k) == Decode(SubSeq(current_token_ids, 1, TokensAt(k)))

\* the tolerant reading of a text, partial strings not allowed, exposes a
\* name that is not empty
ExposesName(text) ==
    LET read == PartialLoads(text, FALSE) IN
    /\ Len(text) > 0
    /\ ~read.err
    /\ read.v.t = "obj"
    /\ Truthy(DictGet(read.v, NameKey))

\* from the step that opened index i on, no step found a name in the text of
\* the call the index was opened for
NeverNamed(i) ==
    \A k \in IndexOpenedAt(i)..Len(log) :
        ~ExposesName(CallTextIn(TextAt(k), CallOfIndex(i)))

\* C25 (as stated): for an index i that was opened and whose call has not
\* exposed a name in any step since, no name delta and no arguments delta
\* has been returned with index i, and no step has let an exception escape.
C25_NoNameNoDeltas ==
    \A i \in 0..current_tool_id :
        NeverNamed(i) =>
            /\ NameCount(i) = 0
            /\ \A k \in 1..Len(log) : ~ArgumentsAt(k, i)
            /\ \A k \in 1..Len(log) : log[k].ret.kind # "raise"

\* -------------------------------------------------------------- C29
RECURSIVE BraceSpans(_, _)
\* tool_call_regex.findall(t) from position pos on: every brace-balanced
\* span, left to right, none inside another
BraceSpans(t, pos) ==
    LET at == {i \in pos..Len(t) : t[i] = "{" /\ BraceEnd(t, i + 1, 1) > 0}
    IN IF at = {} THEN <<>>
       ELSE <<SubSeq(t, SetMin(at), BraceEnd(t, SetMin(at) + 1, 1))>>
            \o BraceSpans(t, BraceEnd(t, SetMin(at) + 1, 1) + 1)

\* C29 (as stated): the tool calls Llama31JsonToolParser.extract_tool_calls
\* returns are the calls of all the brace-balanced spans of the output that
\* parse to an object with a name and with parameters (empty parameters
\* included), in the order of the spans.
C29_BraceBalanceExtraction ==
    (extracted # NotExtracted /\ parser = "llama_json")
        => Result.tool_calls
              = AcceptedCalls("llama", BraceSpans(model_output, 1), 1)

\* -------------------------------------------------------------- C21
\* C21 (as stated): on a step in the call in progress, with the initial
\* delta and the name sent, the stored snapshot of current_tool_id holding
\* arguments and the current parse holding none, the step returns no delta
\* and leaves prev_tool_call_arr and streamed_args_for_tool at
\* current_tool_id as they were.
C21_ArgumentsDisappear ==
    [][\A ids \in {current_token_ids'} :
       \A working \in {WorkingText(Decode(ids), current_tool_id)} :
       \A read \in {PartialLoads(working, TRUE)} :
       \A old_arguments \in {IF IndexOK(prev_tool_call_arr, current_tool_id)
                             THEN DictGet(PyAt(prev_tool_call_arr, current_tool_id),
                                          ArgumentsKey)
                             ELSE NoneV} :
       (/\ current_tool_initial_sent /\ current_tool_name_sent
        /\ UpdateStep(current_token_ids, ids, current_tool_id)
        /\ ~read.err /\ read.v.t = "obj"
        /\ ~Truthy(DictGet(read.v, ArgsKey))
        /\ Truthy(old_arguments))
       => /\ LastStep'.ret.kind = "None"
          /\ PyAt(prev_tool_call_arr', current_tool_id)
                = PyAt(prev_tool_call_arr, current_tool_id)
          /\ PyAt(streamed_args_for_tool', current_tool_id)
                = PyAt(streamed_args_for_tool, current_tool_id)]_vars

\* -------------------------------------------------------------- C31
RECURSIVE IndicesIn(_, _)
\* the indices the tool-call deltas of one step carry, in order
IndicesIn(tcs, j) ==
    IF j > Len(tcs) THEN <<>> ELSE <<tcs[j].index>> \o IndicesIn(tcs, j + 1)

RECURSIVE EmittedIndicesFrom(_)
EmittedIndicesFrom(k) ==
    IF k > Len(log) THEN <<>>
    ELSE IndicesIn(ToolCalls(k), 1) \o EmittedIndicesFrom(k + 1)

\* the index of every tool-call delta emitted so far, in emission order
EmittedIndices == EmittedIndicesFrom(1)

\* C31: over any stream the indices of the emitted tool-call deltas are
\* non-decreasing in emission order (so no delta of an index below one
\* already emitted comes later), and every emitted index lies in
\* 0..current_tool_id as it is when the step that emits it returns.
C31_EmittedIndicesOrdered ==
    /\ \A emitted \in {EmittedIndices} : \A a \in 1..(Len(emitted) - 1) :
          emitted[a] <= emitted[a + 1]
    /\ \A k \in 1..Len(log) : \A j \in 1..Len(ToolCalls(k)) :
          ToolCalls(k)[j].index \in 0..log[k].current_tool_id

\* two indices have emitted deltas, the flush of the first call of a
\* Llama 3.1 stream (index current_tool_id - 1) among them
C31_Witness ==
    /\ parser = "llama"
    /\ \E k \in 1..Len(log) : \E j \in 1..Len(ToolCalls(k)) :
          /\ ToolCalls(k)[j].index = log[k].current_tool_id - 1
          /\ \E m \in (k + 1)..Len(log) : InitialAt(m, log[k].current_tool_id)

\* -------------------------------------------------------------- C32
\* the call of the text (counted from 0) that step k parsed: the one after
\* the last start marker for Hermes, generated_calls[current_tool_id] for
\* Llama 3.1
CallParsedAt(k) ==
    IF parser = "hermes"
    THEN Count(SubSeq(current_token_ids, 1, TokensAt(k)), "S") - 1
    ELSE log[k].current_tool_id

\* the name a text of a call holds as far as it goes, partial strings read
NameInText(text) ==
    LET read == PartialLoads(text, TRUE) IN
    IF Len(text) > 0 /\ ~read.err /\ read.v.t = "obj"
       /\ DictGet(read.v, NameKey).t = "str"
    THEN [ok |-> TRUE, s |-> DictGet(read.v, NameKey).s]
    ELSE [ok |-> FALSE, s |-> <<>>]

\* C32: every step that returns a name delta made its parse with partial
\* strings disallowed, and the name it returned is never a proper prefix of
\* the name the text of that call holds later on.
C32_NameFromCompleteString ==
    \A k \in 1..Len(log) : \A j \in 1..Len(ToolCalls(k)) :
        ToolCalls(k)[j].name.some =>
            /\ log[k].flags = FALSE
            /\ \A final \in {NameInText(CallTextIn(current_text, CallParsedAt(k)))} :
                  final.ok =>
                      ~(/\ IsPrefix(ToolCalls(k)[j].name.v, final.s)
                        /\ ToolCalls(k)[j].name.v # final.s)

\* a name of two tokens was returned whole, and a call opened by a step whose
\* mask still allowed partial strings had its name returned later
C32_Witness ==
    /\ \E k \in 1..Len(log) : \E j \in 1..Len(ToolCalls(k)) :
          /\ ToolCalls(k)[j].name.some
          /\ ToolCalls(k)[j].name.v = <<"f", "g">>
    /\ \E k \in 1..Len(log) :
          /\ log[k].branch = "open"
          /\ log[k].flags
          /\ \E m \in (k + 1)..Len(log) : NameAt(m, log[k].current_tool_id)

\* -------------------------------------------------------------- C33
\* C33 (as stated): for Hermes, after every step and for any chunking of the
\* stream into steps, current_tool_id + 1 is the number of start-marker
\* tokens in current_token_ids.
C33_IndexTracksStartMarkers ==
    parser = "hermes" => current_tool_id + 1 = StartCount

\* -------------------------------------------------------------- C34
\* C34 (as stated): every arguments delta a step returns (intermediate diff,
\* first chunk, or the flush of a closed or previous call) carries a string
\* that is not empty, and the flush of a previous call returns an arguments
\* delta only for a call whose snapshot holds arguments.
C34_NoEmptyArgumentDeltas ==
    \A k \in 1..Len(log) : \A j \in 1..Len(ToolCalls(k)) :
        ToolCalls(k)[j].arguments.some =>
            /\ Len(ToolCalls(k)[j].arguments.v) > 0
            /\ log[k].branch = "flush" =>
                  DictGet(PyAt(prev_tool_call_arr, ToolCalls(k)[j].index),
                          ArgumentsKey) # NoneV

====
